---------------------------- MODULE Spec2Model ----------------------------
(***************************************************************************)
(* Model of src/app.py, the CRGE Historical Database Explorer: a Streamlit *)
(* script that is run top to bottom once per user interaction.             *)
(*                                                                         *)
(* One interaction cycle (one run of the script for one browser session)   *)
(* is one action.  The process-wide state is the st.cache_resource store   *)
(* of get_supabase, the st.cache_data stores of load_options and           *)
(* fetch_entries, and the remote tables; the per-session state is          *)
(* st.session_state["access_token"] and what the browser shows.            *)
(*                                                                         *)
(* Strings that are only compared and sorted (country, period, section,    *)
(* table and column names) are TLA+ strings; their Python order is         *)
(* StrRank.  Strings that are searched (entry, search) are sequences of    *)
(* one-character strings.                                                  *)
(***************************************************************************)
EXTENDS Integers, Sequences, FiniteSets, TLC

VARIABLES
    token,      \* session -> st.session_state["access_token"], or NoToken
    screen,     \* session -> what the browser shows since the session's last run
    clients,    \* the st.cache_resource store of get_supabase: tokens with a client
    cache,      \* the st.cache_data stores: call key -> entry, or NoEntry
    db,         \* which contents the remote tables have
    loggedOut,  \* the sessions that signed out and have not signed in since (history)
    last,       \* the interaction cycle just run, or NoCycle (history)
    qTable,     \* query harness: the rows of the table queried
    qArgs,      \* query harness: <<f>> once fetch_entries has run with filter f
    qOut,       \* query harness: what that fetch_entries returned
    oArgs,      \* options harness: <<column>> once load_options has run on it
    oOut,       \* options harness: how that load_options ended
    rArgs,      \* render harness: <<rows>> once render has run on rows
    rOut,       \* render harness: what that render emitted, in order
    race,       \* concurrent runs: session -> where its cached call has come to
    lock,       \* concurrent runs: call key -> the session computing its value
    upstream    \* concurrent runs: call key -> requests sent since all were idle

vars == <<token, screen, clients, cache, db, loggedOut, last, qTable, qArgs, qOut,
          oArgs, oOut, rArgs, rOut, race, lock, upstream>>

appVars == <<token, screen, clients, cache, db, loggedOut, last>>

queryVars == <<qTable, qArgs, qOut>>

optionVars == <<oArgs, oOut>>

renderVars == <<rArgs, rOut>>

raceVars == <<race, lock, upstream>>

\* what the runs of the whole script leave alone
harnessVars == <<queryVars, optionVars, renderVars, raceVars>>

-----------------------------------------------------------------------------
(* Values *)

All == "All"

\* Python's None / SQL NULL in a column
Null == "<null>"

\* The @st.cache_data(ttl=600) argument, in seconds
TTL == 600

\* Most rows the query harness puts in a table
MaxRows == 3

\* Python's order on str (by code point), on the strings the model uses
StrRank(s) ==
    CASE s = "A"   -> 1
      [] s = "AB"  -> 2
      [] s = "All" -> 3
      [] s = "B"   -> 4
      [] s = "FR"  -> 5
      [] s = "FRA" -> 6
      [] s = "UK"  -> 7
      [] s = "p1"  -> 8
      [] s = "p10" -> 9
      [] s = "p2"  -> 10
      [] OTHER     -> 0

Range(f) == {f[i] : i \in DOMAIN f}

\* str.lower() / the case folding of ILIKE, on the characters the model uses
Lower(c) ==
    CASE c = "A" -> "a"
      [] c = "B" -> "b"
      [] OTHER   -> c

\* One row of English / OriginalLanguage
Row(id, country, period, section, sn, en, entry) ==
    [id |-> id, country |-> country, period |-> period, section |-> section,
     section_num |-> sn, entry_num |-> en, entry |-> entry]

-----------------------------------------------------------------------------
(* The remote query that fetch_entries builds *)

\* PostgreSQL's text ILIKE pat: % is any run of characters, _ is any one
\* character, anything else is itself, compared without case.
RECURSIVE ILike(_, _)
ILike(text, pat) ==
    IF pat = <<>> THEN text = <<>>
    ELSE IF Head(pat) = "%"
         THEN ILike(text, Tail(pat))
              \/ (text # <<>> /\ ILike(Tail(text), pat))
    ELSE /\ text # <<>>
         /\ (Head(pat) = "_" \/ Lower(Head(text)) = Lower(Head(pat)))
         /\ ILike(Tail(text), Tail(pat))

\* f"%{search}%"
SearchPattern(search) == <<"%">> \o search \o <<"%">>

\* .eq(column, value): equality; NULL equals nothing
Eq(v, value) == v # Null /\ v = value

\* the filters fetch_entries adds to the query
RowMatches(r, country, period, section, search) ==
    /\ (country # All => Eq(r.country, country))
    /\ (period # All => Eq(r.period, period))
    /\ (section # All => Eq(r.section, section))
    /\ (search # <<>> => r.entry # Null /\ ILike(r.entry, SearchPattern(search)))

\* Mutant of OrderLeq: the second .order() replaces the first
OrderByLastKeyOnly(a, b) == a.entry_num <= b.entry_num

\* .order("section_num").order("entry_num")
OrderLeq(a, b) ==
    \/ a.section_num < b.section_num
    \/ (a.section_num = b.section_num /\ a.entry_num <= b.entry_num)

RECURSIVE InsertOrdered(_, _)
InsertOrdered(r, s) ==
    IF s = <<>> THEN <<r>>
    ELSE IF OrderLeq(Head(s), r) THEN <<Head(s)>> \o InsertOrdered(r, Tail(s))
    ELSE <<r>> \o s

RECURSIVE OrderRows(_)
OrderRows(s) ==
    IF s = <<>> THEN <<>>
    ELSE InsertOrdered(s[Len(s)], OrderRows(SubSeq(s, 1, Len(s) - 1)))

\* the rows the query finds in its table, in the order asked for
Found(rows, country, period, section, search) ==
    LET Keep(r) == RowMatches(r, country, period, section, search)
    IN  OrderRows(SelectSeq(rows, Keep))

\* what q.execute() returns: .data is a list of rows, or None
Response(none, data) == [none |-> none, data |-> data]

\* Mutant of DataOrEmpty: a response without rows taken as a failure, shown
\* as a row that is none of the table
DataOrError(resp) ==
    IF resp.none \/ resp.data = <<>>
    THEN <<Row(0, Null, Null, "error", 0, 0, <<>>)>>
    ELSE resp.data

\* resp.data or []
DataOrEmpty(resp) == IF resp.none \/ resp.data = <<>> THEN <<>> ELSE resp.data

\* fetch_entries run against the rows of its table (a cache miss)
FetchEntries(rows, country, period, section, search) ==
    DataOrEmpty(Response(FALSE, Found(rows, country, period, section, search)))


-----------------------------------------------------------------------------
(* load_options *)

\* {row[column] for row in rows if column in row}: select(column) returns the
\* column in every row, a NULL as None
ColumnValues(rows, column) == {rows[i][column] : i \in DOMAIN rows}

\* sorted(values) compares the values pairwise; None against a str is a
\* TypeError
SortRaises(values) == Null \in values /\ Cardinality(values) > 1

RECURSIVE SortedStrings(_)
SortedStrings(values) ==
    IF values = {} THEN <<>>
    ELSE LET least == CHOOSE v \in values :
                          \A w \in values : StrRank(v) <= StrRank(w)
         IN  <<least>> \o SortedStrings(values \ {least})

\* load_options run against the rows of its table (a cache miss)
LoadOptions(rows, column) == <<All>> \o SortedStrings(ColumnValues(rows, column))

\* how a call of a function ends: it raises, or returns value
Result(raised, value) == [raised |-> raised, value |-> value]

\* no call yet
NoResult == Result(FALSE, <<>>)

\* load_options called on the rows of its table: sorted() raises, or the
\* list is returned
LoadOptionsCall(rows, column) ==
    IF SortRaises(ColumnValues(rows, column))
    THEN Result(TRUE, <<>>)
    ELSE Result(FALSE, LoadOptions(rows, column))

-----------------------------------------------------------------------------
(* render *)

\* one element written to the page: st.header, st.subheader or st.write with
\* its text, the button, and for the st.write of an entry the id of the row it
\* was taken from (history)
Emit(kind, label, entry, id) ==
    [kind |-> kind, label |-> label, entry |-> entry, id |-> id]

\* st.header(label)
Header(label) == Emit("header", label, <<>>, 0)

\* st.write("No entries found.")
Notice == Emit("notice", "No entries found.", <<>>, 0)

\* st.subheader(f"Section: {sec_val}")
Subheader(sec) == Emit("subheader", "Section: " \o sec, <<>>, 0)

\* st.write(entry)
WriteEntry(r) == Emit("write", "", r.entry, r.id)

\* the keys of df.groupby("section", sort=False), in the order of the groups:
\* each section at its first row; rows whose section is null belong to no
\* group (dropna is True unless given)
RECURSIVE GroupKeys(_, _)
GroupKeys(rows, seen) ==
    IF rows = <<>> THEN <<>>
    ELSE LET sec == Head(rows).section
         IN  IF sec = Null \/ sec \in seen
             THEN GroupKeys(Tail(rows), seen)
             ELSE <<sec>> \o GroupKeys(Tail(rows), seen \cup {sec})

\* lines 87-89 for the groups of keys: the subheading, then grp["entry"] in
\* the order of the rows
RECURSIVE RenderGroups(_, _)
RenderGroups(rows, keys) ==
    IF keys = <<>> THEN <<>>
    ELSE LET InGroup(r) == r.section = Head(keys)
             grp == SelectSeq(rows, InGroup)
         IN  <<Subheader(Head(keys))>>
             \o [i \in 1..Len(grp) |-> WriteEntry(grp[i])]
             \o RenderGroups(rows, Tail(keys))

\* render(rows, label): what it writes to the page, in order
Render(rows, label) ==
    IF rows = <<>>
    THEN <<Header(label), Notice>>
    ELSE <<Header(label)>> \o RenderGroups(rows, GroupKeys(rows, {}))

\* the label a table is rendered under (lines 91-92; the second without its
\* first word, which is not ASCII)
TableLabel(table) ==
    IF table = "English" THEN "English" ELSE "(Original Language)"

\* what a run writes to the page from line 71 on, given its cached calls in
\* order: a selectbox after each load_options that returned, the search box,
\* and once both fetch_entries have returned, both tables and the button
Page(calls) ==
    LET Returned(i) == i <= Len(calls) /\ calls[i].ok
        Box(i, name) == IF Returned(i) THEN <<Emit("selectbox", name, <<>>, 0)>>
                                       ELSE <<>>
    IN  Box(1, "Country") \o Box(2, "Period") \o Box(3, "Section")
        \o (IF Returned(3) THEN <<Emit("text_input", "Search entries", <<>>, 0)>>
                            ELSE <<>>)
        \o (IF Returned(5)
            THEN Render(calls[4].result, TableLabel("English"))
                 \o Render(calls[5].result, TableLabel("OriginalLanguage"))
                 \o <<Emit("button", "Log out", <<>>, 0)>>
            ELSE <<>>)

-----------------------------------------------------------------------------
(* The remote tables *)

Tables == {"English", "OriginalLanguage"}

\* The contents the remote tables can have: a second writer may replace one
\* by the other at any time between two interaction cycles.
DbVersions == {1, 2}

DbTable(version, table) ==
    IF table = "English"
    THEN IF version = 1
         THEN << Row(1, "FR", "p1", "A", 1, 1, <<"a">>),
                 Row(2, "UK", "p1", "B", 2, 1, <<"b">>) >>
         ELSE << Row(3, "FR", "p1", "B", 2, 2, <<"a", "b">>),
                 Row(1, "FR", "p1", "A", 1, 1, <<"a">>),
                 Row(2, "UK", "p1", "B", 2, 1, <<"b">>) >>
    ELSE IF version = 1
         THEN << Row(1, "FR", "p1", "A", 1, 1, <<"A">>),
                 Row(2, "UK", "p1", "B", 2, 1, <<"B">>) >>
         ELSE << Row(1, "FR", "p1", "A", 1, 1, <<"A">>) >>

-----------------------------------------------------------------------------
(* Sessions, tokens and user input *)

\* Most browser sessions connected to the server process
MaxSessions == 2

Sessions == 1..MaxSessions

\* the session of NoCycle
NoSession == 0

\* the access tokens the identity provider can return
Tokens == {"tA", "tB"}

\* "access_token" not in st.session_state
NoToken == "none"

\* the messages of the exceptions lines 27-28 can raise: the identity
\* provider refuses, or answers without a session
AuthErrors ==
    {"Invalid login credentials", "'NoneType' object has no attribute 'access_token'"}

\* what a user does to start a cycle: any widget interaction or page load,
\* a click on "Log in", a click on "Log out"
Events == {"interact", "login", "logout"}

Filter(country, period, section, search) ==
    [country |-> country, period |-> period, section |-> section, search |-> search]

\* a fresh selectbox shows its first option, a fresh text_input is empty
DefaultFilter == Filter(All, All, All, <<>>)

\* the widget values the users of the model choose among
FilterInputs == {DefaultFilter, Filter("FR", All, All, <<>>)}

\* a filter that no row of one table matches once the tables have changed
EmptyFilter == Filter("UK", All, All, <<>>)

\* how much time passes at once, in seconds
TickSteps == {599, 600}

-----------------------------------------------------------------------------
(* The st.cache_data stores *)

\* st.cache_data keys an entry by the function and its arguments
OptKey(table, column) ==
    <<"load_options", table, column>>

\* Mutant of FetchKey: the table name left out of the key
FetchKeyWithoutTable(table, f) ==
    <<"fetch_entries", "English", f.country, f.period, f.section, f.search>>

FetchKey(table, f) ==
    <<"fetch_entries", table, f.country, f.period, f.section, f.search>>

IsFetch(key) == key[1] = "fetch_entries"

OptKeys == {OptKey("English", c) : c \in {"country", "period", "section"}}

FetchKeys == {FetchKey(t, f) : t \in Tables, f \in FilterInputs \cup {EmptyFilter}}

Keys == OptKeys \cup FetchKeys

NoEntry == [value |-> <<>>, age |-> -1, by |-> NoToken]

\* a stored result, the seconds since it was stored (at most TTL), and the
\* token of the client that fetched it (history)
Entry(value, age, by) == [value |-> value, age |-> age, by |-> by]

\* Mutant of Fresh: the ttl taken in another unit, so that an entry is stale
\* after its first second
FreshForOneSecond(e) == e # NoEntry /\ e.age < 1

\* Mutant of Fresh: an entry is still served when exactly TTL seconds old
FreshInclusive(e) == e # NoEntry /\ e.age <= TTL

\* ttl=600: an entry is served while less than TTL seconds old
Fresh(e) == e # NoEntry /\ e.age < TTL

\* Mutant of Lookup: the store keyed by the caller's token as well
LookupPerToken(c, key, t) == IF c[key].by = t THEN c[key] ELSE NoEntry

\* the entry the store holds for a call: keyed by function and arguments,
\* whatever the token t of the calling session
Lookup(c, key, t) == c[key]

\* the body of the cached function, run by the client of the calling session
\* against the tables as they are now
Backend(key, version) ==
    IF IsFetch(key)
    THEN FetchEntries(DbTable(version, key[2]), key[3], key[4], key[5], key[6])
    ELSE LoadOptions(DbTable(version, key[2]), key[3])

\* the body raises: the request fails, or sorted() does
BodyRaises(key, version, fails) ==
    \/ fails
    \/ (~IsFetch(key) /\ SortRaises(ColumnValues(DbTable(version, key[2]), key[3])))

\* the record of one call of a cached function (history): its key, the age
\* of the entry found (-1: none), whether the body ran and how many times,
\* whether the call returned, the token of the client that fetched the
\* result, and the result
CallRecord(key, age, attempts, ok, by, result) ==
    [key |-> key, age |-> age, live |-> attempts > 0, attempts |-> attempts,
     ok |-> ok, by |-> by, result |-> result]

\* Mutant of Call: the failure of a request is stored as an empty result
CallStoringFailure(st, key, t, fails) ==
    LET prior == Lookup(st.cache, key, t)
    IN  IF ~st.ok THEN st
        ELSE IF Fresh(prior)
        THEN [st EXCEPT !.calls = Append(@, CallRecord(key, prior.age, 0, TRUE,
                                                       prior.by, prior.value))]
        ELSE IF BodyRaises(key, db, fails)
        THEN [st EXCEPT !.ok = FALSE,
                        !.cache = [@ EXCEPT ![key] = Entry(<<>>, 0, t)],
                        !.calls = Append(@, CallRecord(key, prior.age, 1, FALSE,
                                                       t, <<>>))]
        ELSE LET v == Backend(key, db)
             IN  [st EXCEPT !.cache = [@ EXCEPT ![key] = Entry(v, 0, t)],
                            !.calls = Append(@, CallRecord(key, prior.age, 1, TRUE,
                                                           t, v))]

\* Mutant of Call: a request that fails is sent a second time, and that
\* time is answered
CallRetrying(st, key, t, fails) ==
    LET prior == Lookup(st.cache, key, t)
    IN  IF ~st.ok THEN st
        ELSE IF Fresh(prior)
        THEN [st EXCEPT !.calls = Append(@, CallRecord(key, prior.age, 0, TRUE,
                                                       prior.by, prior.value))]
        ELSE IF BodyRaises(key, db, FALSE)
        THEN [st EXCEPT !.ok = FALSE,
                        !.calls = Append(@, CallRecord(key, prior.age, 1, FALSE,
                                                       t, <<>>))]
        ELSE LET v == Backend(key, db)
             IN  [st EXCEPT !.cache = [@ EXCEPT ![key] = Entry(v, 0, t)],
                            !.calls = Append(@, CallRecord(key, prior.age,
                                                           IF fails THEN 2 ELSE 1,
                                                           TRUE, t, v))]

\* One call of a cached function in a cycle that has come to state st
\* ([cache, calls, ok]) by the session holding token t.  A fresh entry is
\* returned without running the body; otherwise the body runs once, and its
\* result is stored unless it raises, which ends the cycle: neither
\* st.cache_data nor the script catches the exception.
Call(st, key, t, fails) ==
    LET prior == Lookup(st.cache, key, t)
    IN  IF ~st.ok THEN st
        ELSE IF Fresh(prior)
        THEN [st EXCEPT !.calls = Append(@, CallRecord(key, prior.age, 0, TRUE,
                                                       prior.by, prior.value))]
        ELSE IF BodyRaises(key, db, fails)
        THEN [st EXCEPT !.ok = FALSE,
                        !.calls = Append(@, CallRecord(key, prior.age, 1, FALSE,
                                                       t, <<>>))]
        ELSE LET v == Backend(key, db)
             IN  [st EXCEPT !.cache = [@ EXCEPT ![key] = Entry(v, 0, t)],
                            !.calls = Append(@, CallRecord(key, prior.age, 1, TRUE,
                                                           t, v))]

-----------------------------------------------------------------------------
(* One interaction cycle: one run of the script *)

\* what a browser can show: the sign-in form with its "Log in" button (and
\* the st.error of a failed sign-in); the filters, both tables and the
\* "Log out" button; or neither button (nothing yet, or the output of a run
\* that an uncaught exception cut short)
Screens == {"form", "data", "other"}

\* the history record of one cycle: the session, its token when the run
\* began, whether it had signed out and not signed in since, how
\* sign_in_with_password ended ("none" if not called), the message it raised
\* with, the st.error text, whether get_supabase built a client, the cached
\* calls in order, what the run wrote to the page from line 71 on, whether
\* the run came to line 95, whether it deleted the token
Cycle(s, signin, raised, error, built, calls, done, logout) ==
    [session |-> s, start |-> token[s], afterLogout |-> s \in loggedOut,
     signin |-> signin, raised |-> raised, error |-> error, built |-> built,
     calls |-> calls, page |-> Page(calls), done |-> done, logout |-> logout]

NoCycle ==
    [session |-> NoSession, start |-> NoToken, afterLogout |-> FALSE,
     signin |-> "none", raised |-> "", error |-> "", built |-> FALSE,
     calls |-> <<>>, page |-> <<>>, done |-> FALSE, logout |-> FALSE]

\* a button reports a click only if the browser showed it when the user acted
CanClick(s, ev) ==
    \/ ev = "interact"
    \/ (ev = "login" /\ screen[s] = "form")
    \/ (ev = "logout" /\ screen[s] = "data")

\* Mutant of SignedIn: the gate of line 20 left out
SignedInAlways(s) == TRUE

\* the condition of line 20, negated
SignedIn(s) == token[s] # NoToken

\* line 29 and rerun(): the token is stored, the URL gets a _rerun parameter
\* and st.stop() ends the run (StopException is no Exception, so the except
\* clause does not see it).  Nothing but the form has been rendered, and no
\* new run is started.
SignInSucceeds(s, t) ==
    /\ token' = [token EXCEPT ![s] = t]
    /\ loggedOut' = loggedOut \ {s}
    /\ screen' = [screen EXCEPT ![s] = "form"]
    /\ last' = Cycle(s, "ok", "", "", FALSE, <<>>, FALSE, FALSE)

\* Mutant of SignInFails: the exception swallowed without st.error
SignInFailsSilently(s, msg) ==
    /\ screen' = [screen EXCEPT ![s] = "form"]
    /\ last' = Cycle(s, "failed", msg, "", FALSE, <<>>, FALSE, FALSE)
    /\ UNCHANGED <<token, loggedOut>>

\* lines 31-33: st.error shows the exception's message, then st.stop()
SignInFails(s, msg) ==
    /\ screen' = [screen EXCEPT ![s] = "form"]
    /\ last' = Cycle(s, "failed", msg, "Login failed: " \o msg, FALSE, <<>>,
                     FALSE, FALSE)
    /\ UNCHANGED <<token, loggedOut>>

\* lines 20-33, "Log in" not clicked: the form, then st.stop()
SignInFormOnly(s) ==
    /\ screen' = [screen EXCEPT ![s] = "form"]
    /\ last' = Cycle(s, "none", "", "", FALSE, <<>>, FALSE, FALSE)
    /\ UNCHANGED <<token, loggedOut>>

\* A run of the script by a session without token: lines 7-33
SignInPage(s, ev) ==
    /\ ~SignedIn(s)
    /\ CanClick(s, ev)
    /\ \/ /\ ev = "login"
          /\ \E t \in Tokens : SignInSucceeds(s, t)
       \/ /\ ev = "login"
          /\ \E msg \in AuthErrors : SignInFails(s, msg)
       \/ /\ ev # "login"
          /\ SignInFormOnly(s)
    /\ UNCHANGED <<clients, cache, db>>

\* lines 71-73: a selectbox returns one of the options it was given
Offered(calls, f) ==
    /\ f.country \in Range(calls[1].result)
    /\ f.period \in Range(calls[2].result)
    /\ f.section \in Range(calls[3].result)

\* Mutant of Logout: rerun() without the del
LogoutKeepsToken(s) == UNCHANGED token

\* lines 95-97: del st.session_state["access_token"], then rerun()
Logout(s) == token' = [token EXCEPT ![s] = NoToken]

\* Mutant of BuildsClient: get_supabase without @st.cache_resource
BuildsClientAlways(t) == TRUE

\* lines 36-42: get_supabase runs its body, which builds a client and binds
\* it to the token, only when st.cache_resource holds no client for the token
BuildsClient(t) == t \notin clients

\* A run of the script by a session with a token: lines 7-20 and 36-97.
\* failAt is the call of the run (1..5) whose request fails if it is made;
\* 0 is none.
DataPage(s, ev, f, failAt) ==
    /\ SignedIn(s)
    /\ CanClick(s, ev)
    /\ LET t  == token[s]
           s0 == [cache |-> cache, calls |-> <<>>, ok |-> TRUE]
           s1 == Call(s0, OptKey("English", "country"), t, failAt = 1)
           s2 == Call(s1, OptKey("English", "period"), t, failAt = 2)
           s3 == Call(s2, OptKey("English", "section"), t, failAt = 3)
           s4 == Call(s3, FetchKey("English", f), t, failAt = 4)
           s5 == Call(s4, FetchKey("OriginalLanguage", f), t, failAt = 5)
       IN  /\ IF s3.ok THEN Offered(s3.calls, f) ELSE f = DefaultFilter
           /\ clients' = clients \cup {t}
           /\ cache' = s5.cache
           /\ screen' = [screen EXCEPT ![s] = IF s5.ok THEN "data" ELSE "other"]
           /\ IF s5.ok /\ ev = "logout" THEN Logout(s) ELSE UNCHANGED token
           /\ loggedOut' = IF s5.ok /\ ev = "logout" THEN loggedOut \cup {s}
                                                     ELSE loggedOut
           /\ last' = Cycle(s, "none", "", "", BuildsClient(t), s5.calls, s5.ok,
                            s5.ok /\ ev = "logout")
    /\ UNCHANGED db

\* an entry that is TTL seconds old or more: st.cache_data never returns it
\* again, so what it held is forgotten
Expired == [value |-> <<>>, age |-> TTL, by |-> NoToken]

\* d seconds pass
Tick(d) ==
    /\ cache' = [k \in Keys |->
                    IF cache[k] = NoEntry THEN NoEntry
                    ELSE IF cache[k].age + d >= TTL THEN Expired
                    ELSE [cache[k] EXCEPT !.age = @ + d]]
    /\ cache' # cache
    /\ last' = NoCycle
    /\ UNCHANGED <<token, screen, clients, db, loggedOut>>

\* Another writer changes the remote tables
BackendWrite(v) ==
    /\ v # db
    /\ db' = v
    /\ last' = NoCycle
    /\ UNCHANGED <<token, screen, clients, cache, loggedOut>>

\* the two runs that can be under way at once, each in its own script thread
RaceSessions == {1, 2}

\* the cached calls they race for
RaceKeys == {OptKey("English", "country"), FetchKey("English", DefaultFilter)}

\* where a cached call has come to: pc is "idle" (not called), "miss" (no
\* fresh entry found, the value lock not yet taken), "locked" (the lock
\* taken, no fresh entry found again), "store" (the request answered) or
\* "done"; overlap tells that the call found no fresh entry while another
\* run was working on the same key (history)
RaceAt(pc, key, overlap, got) ==
    [pc |-> pc, key |-> key, overlap |-> overlap, got |-> got]

Idle == RaceAt("idle", <<>>, FALSE, NoResult)

Init ==
    /\ token = [s \in Sessions |-> NoToken]
    /\ screen = [s \in Sessions |-> "other"]
    /\ clients = {}
    /\ cache = [k \in Keys |-> NoEntry]
    /\ db = 1
    /\ loggedOut = {}
    /\ last = NoCycle
    /\ qTable = <<>>
    /\ qArgs = <<>>
    /\ qOut = <<>>
    /\ oArgs = <<>>
    /\ oOut = NoResult
    /\ rArgs = <<>>
    /\ rOut = <<>>
    /\ race = [s \in RaceSessions |-> Idle]
    /\ lock = [k \in RaceKeys |-> NoSession]
    /\ upstream = [k \in RaceKeys |-> 0]

\* the steps of the sessions S whose users choose filters among F, with the
\* failing call of a run chosen among fails
Step(S, F, fails) ==
    \/ \E s \in S, ev \in Events : SignInPage(s, ev) /\ UNCHANGED harnessVars
    \/ \E s \in S, ev \in Events, f \in F, failAt \in fails :
           DataPage(s, ev, f, failAt) /\ UNCHANGED harnessVars
    \/ \E d \in TickSteps : Tick(d) /\ UNCHANGED harnessVars
    \/ \E v \in DbVersions : BackendWrite(v) /\ UNCHANGED harnessVars

\* one browser session, requests that can fail
Next == Step({1}, {DefaultFilter}, 0..5)

\* all browser sessions of one server process, requests that succeed
NextShared == Step(Sessions, {DefaultFilter}, {0})

\* one browser session whose user changes the filter, requests that succeed
NextFilters == Step({1}, FilterInputs, {0})

Spec == Init /\ [][Next]_vars

SpecShared == Init /\ [][NextShared]_vars

SpecFilters == Init /\ [][NextFilters]_vars

\* one browser session whose user filters by a country that one table may
\* have no row of, requests that succeed
NextEmpty == Step({1}, {DefaultFilter, EmptyFilter}, {0})

SpecEmpty == Init /\ [][NextEmpty]_vars

-----------------------------------------------------------------------------
(* Two runs at once: each browser session runs the script in a thread of    *)
(* its own, and the threads share the st.cache_data stores.  A cached call  *)
(* is followed here step by step.                                           *)

\* the other run is working on the same key
Overlaps(s, key) ==
    \E o \in RaceSessions \ {s} :
        race[o].key = key /\ race[o].pc \in {"miss", "locked", "store"}

\* the call of the cached function: the store is read without any lock
RLookup(s, key) ==
    /\ SignedIn(s)
    /\ race[s].pc = "idle"
    /\ race' = [race EXCEPT ![s] =
                   IF Fresh(cache[key])
                   THEN RaceAt("done", key, FALSE, Result(FALSE, cache[key].value))
                   ELSE RaceAt("miss", key, Overlaps(s, key), NoResult)]
    /\ UNCHANGED <<lock, upstream, appVars>>

\* after a miss st.cache_data takes the lock of the value, waiting while
\* another thread holds it, and reads the store again
RAcquire(s) ==
    /\ race[s].pc = "miss"
    /\ lock[race[s].key] = NoSession
    /\ LET key == race[s].key
       IN  IF Fresh(cache[key])
           THEN /\ race' = [race EXCEPT ![s].pc = "done",
                                        ![s].got = Result(FALSE, cache[key].value)]
                /\ UNCHANGED lock
           ELSE /\ race' = [race EXCEPT ![s].pc = "locked"]
                /\ lock' = [lock EXCEPT ![key] = s]
    /\ UNCHANGED <<upstream, appVars>>

\* the body runs and sends its request; if that fails the exception leaves
\* the with block, which gives the lock back, and ends the run
RRequest(s, fails) ==
    /\ race[s].pc = "locked"
    /\ LET key == race[s].key
       IN  /\ upstream' = [upstream EXCEPT ![key] = @ + 1]
           /\ IF BodyRaises(key, db, fails)
              THEN /\ race' = [race EXCEPT ![s].pc = "done",
                                           ![s].got = Result(TRUE, <<>>)]
                   /\ lock' = [lock EXCEPT ![key] = NoSession]
              ELSE /\ race' = [race EXCEPT ![s].pc = "store",
                                           ![s].got = Result(FALSE, Backend(key, db))]
                   /\ UNCHANGED lock
    /\ UNCHANGED appVars

\* the value is written to the store and the lock given back
RStore(s) ==
    /\ race[s].pc = "store"
    /\ LET key == race[s].key
       IN  /\ cache' = [cache EXCEPT ![key] = Entry(race[s].got.value, 0, token[s])]
           /\ lock' = [lock EXCEPT ![key] = NoSession]
    /\ race' = [race EXCEPT ![s].pc = "done"]
    /\ UNCHANGED <<upstream, token, screen, clients, db, loggedOut, last>>

\* no cached call is under way
Quiet == \A s \in RaceSessions : race[s].pc \in {"idle", "done"}

\* both runs have ended
RFinish ==
    /\ Quiet
    /\ \E s \in RaceSessions : race[s].pc = "done"
    /\ race' = [s \in RaceSessions |-> Idle]
    /\ upstream' = [k \in RaceKeys |-> 0]
    /\ UNCHANGED <<lock, appVars>>

\* runs of two sessions whose cached calls interleave, requests that can
\* fail; a cached call takes far less time than TickSteps, so that the
\* clock moves on between calls only
NextRace ==
    \/ \E s \in RaceSessions, ev \in Events : SignInPage(s, ev) /\ UNCHANGED harnessVars
    \/ \E d \in TickSteps : Quiet /\ Tick(d) /\ UNCHANGED harnessVars
    \/ \E v \in DbVersions : BackendWrite(v) /\ UNCHANGED harnessVars
    \/ \E s \in RaceSessions, k \in RaceKeys :
           RLookup(s, k) /\ UNCHANGED <<queryVars, optionVars, renderVars>>
    \/ \E s \in RaceSessions :
           RAcquire(s) /\ UNCHANGED <<queryVars, optionVars, renderVars>>
    \/ \E s \in RaceSessions, fails \in BOOLEAN :
           RRequest(s, fails) /\ UNCHANGED <<queryVars, optionVars, renderVars>>
    \/ \E s \in RaceSessions :
           RStore(s) /\ UNCHANGED <<queryVars, optionVars, renderVars>>
    \/ RFinish /\ UNCHANGED <<queryVars, optionVars, renderVars>>

SpecRace == Init /\ [][NextRace]_vars

\* C16: when two runs look up the same key at once and neither finds an
\* entry younger than TTL, at most one request is sent for the key and both
\* runs get the same result.
C16_NoStampede ==
    (/\ \A s \in RaceSessions : race[s].pc = "done"
     /\ \E s \in RaceSessions : race[s].overlap
     /\ race[1].key = race[2].key)
        => /\ upstream[race[1].key] <= 1
           /\ race[1].got = race[2].got

\* C16, when no request fails: the same.
C16_NoStampedeUnlessFailure ==
    (\A s \in RaceSessions : ~race[s].got.raised) => C16_NoStampede

\* two runs have missed the same key at once and both have ended, one with
\* the result the other one stored
C16_PlainWitness ==
    /\ \A s \in RaceSessions : race[s].pc = "done" /\ ~race[s].got.raised
    /\ \E s \in RaceSessions : race[s].overlap
    /\ race[1].key = race[2].key
    /\ upstream[race[1].key] = 1

-----------------------------------------------------------------------------
(* Properties of the interaction cycles *)

\* a cycle has just run
Ran == last.session # NoSession

\* the cached calls of the cycle that has just run
LastCall(n) == last.calls[n]

\* the cached calls of the cycle that a step runs
NewCall(n) == last'.calls[n]

\* C1: a cycle that starts with no token in the session shows the sign-in
\* form and nothing else, calls neither load_options nor fetch_entries, and
\* builds no client.
C1_AuthGate ==
    (Ran /\ last.start = NoToken) =>
        /\ screen[last.session] = "form"
        /\ last.calls = <<>>
        /\ ~last.built
        /\ ~last.done

\* C1 witness: after a sign-in, a data view and a sign-out, a cycle has run
\* without token while the stores still hold a client and a fresh result.
C1_Witness ==
    /\ Ran
    /\ last.start = NoToken
    /\ last.afterLogout
    /\ clients # {}
    /\ \E k \in Keys : cache[k] # NoEntry /\ cache[k].age < TTL

\* C2: once the session holds a token, a client for that token exists and no
\* result of the cycle was obtained through a client bound to another token,
\* from the cache or live.
C2_NoResultOfStaleClient ==
    (Ran /\ last.start # NoToken) =>
        /\ last.start \in clients
        /\ \A n \in DOMAIN last.calls : LastCall(n).ok => LastCall(n).by = last.start

\* C3: the result store is keyed by function and arguments only.  A call
\* whose key holds an entry less than TTL seconds old, stored by a client of
\* another token than the caller's, returns that entry's result and makes no
\* request; and a step that changes a session's token (sign-in, sign-out)
\* removes no entry and leaves every entry less than TTL seconds old as it
\* was.
C3_SharedAcrossTokens ==
    [][ /\ \A n \in DOMAIN last'.calls : LET c == NewCall(n) IN
               (/\ last'.session # NoSession
                /\ cache[c.key] # NoEntry
                /\ cache[c.key].age < TTL
                /\ cache[c.key].by # last'.start)
                   => /\ ~c.live
                      /\ c.ok
                      /\ c.result = cache[c.key].value
                      /\ c.by = cache[c.key].by
                      /\ cache'[c.key] = cache[c.key]
        /\ token' # token =>
               \A k \in Keys :
                   /\ cache[k] # NoEntry => cache'[k] # NoEntry
                   /\ (cache[k] # NoEntry /\ cache[k].age < TTL) => cache'[k] = cache[k]
      ]_vars

\* C3 witness: a session holding one token has been served a result that
\* the client of the other token fetched, while another session holds that
\* other token.
C3_Witness ==
    /\ Ran
    /\ \E n \in DOMAIN last.calls : LET c == LastCall(n) IN
           /\ ~c.live
           /\ c.by # last.start
           /\ \E s \in Sessions \ {last.session} : token[s] = c.by

\* C4: once sign_in_with_password has succeeded, the session holds the token
\* and the browser shows the data view, never the sign-in form.
C4_DataViewOnSignIn ==
    \A s \in Sessions : token[s] # NoToken => screen[s] # "form"

\* C5: when sign_in_with_password raises, the message of the exception is
\* shown, the session holds no token, the sign-in form is shown and no
\* cached call is made.
C5_FailedSignIn ==
    (Ran /\ last.signin = "failed") =>
        /\ last.raised \in AuthErrors
        /\ last.error = "Login failed: " \o last.raised
        /\ token[last.session] = NoToken
        /\ screen[last.session] = "form"
        /\ last.calls = <<>>
        /\ ~last.built

\* C5 witness: a sign-in has failed in a session that had signed in before,
\* while the store holds a fresh result.
C5_Witness ==
    /\ Ran
    /\ last.signin = "failed"
    /\ last.afterLogout
    /\ \E k \in Keys : cache[k] # NoEntry /\ cache[k].age < TTL

\* C6: the run that handles a click on "Log out" leaves the session without
\* token, and every run of a session that has signed out and not signed in
\* since shows the sign-in form and neither fetches nor renders rows.
C6_SignOut ==
    Ran =>
        /\ last.logout => token[last.session] = NoToken
        /\ last.afterLogout =>
               /\ last.start = NoToken
               /\ screen[last.session] = "form"
               /\ last.calls = <<>>
               /\ ~last.done

\* C6 witness: a session that signed out has run again, and the store holds
\* fresh results of both fetch_entries calls.
C6_Witness ==
    /\ Ran
    /\ last.afterLogout
    /\ last.signin = "none"
    /\ \A t \in Tables :
           LET e == cache[FetchKey(t, DefaultFilter)]
           IN  e # NoEntry /\ e.age < TTL

\* C7: a fetch_entries call whose arguments hold an entry less than TTL
\* seconds old returns the stored result, makes no request and leaves the
\* entry as it is, whatever the tables hold by then; the entry was stored
\* by the one call that made a request.
C7_CacheHit ==
    [][ \A n \in DOMAIN last'.calls : LET c == NewCall(n) IN
            (last'.session # NoSession /\ IsFetch(c.key)) =>
                /\ (cache[c.key] # NoEntry /\ cache[c.key].age < TTL) =>
                       /\ ~c.live
                       /\ c.result = cache[c.key].value
                       /\ cache'[c.key] = cache[c.key]
                /\ (c.live /\ c.ok) =>
                       /\ cache'[c.key].value = c.result
                       /\ cache'[c.key].age = 0
      ]_vars

\* C7 witness: fetch_entries has returned a stored result, some time after it
\* was stored, that differs from what the table would return now.
C7_Witness ==
    /\ Ran
    /\ \E n \in DOMAIN last.calls : LET c == LastCall(n) IN
           /\ IsFetch(c.key)
           /\ ~c.live
           /\ c.age > 0
           /\ c.result # Backend(c.key, db)

\* C8: a call whose arguments hold an entry that is TTL seconds old or more
\* makes one request and, when that returns, stores the result as a new
\* entry; a call whose arguments hold a younger entry makes none.
C8_Expiry ==
    Ran =>
        /\ \A i, j \in DOMAIN last.calls :
               i # j => last.calls[i].key # last.calls[j].key
        /\ \A n \in DOMAIN last.calls : LET c == LastCall(n) IN
               /\ c.age >= TTL =>
                      /\ c.live
                      /\ c.ok => /\ cache[c.key].value = c.result
                                 /\ cache[c.key].age = 0
               /\ (c.age >= 0 /\ c.age < TTL) => ~c.live

\* C8 witness: in one cycle a call found an expired entry and fetched anew,
\* and a call found a younger entry and was served from it.
C8_Witness ==
    /\ Ran
    /\ \E n \in DOMAIN last.calls :
           LastCall(n).age >= TTL /\ LastCall(n).live /\ LastCall(n).ok
    /\ \E n \in DOMAIN last.calls :
           LastCall(n).age > 0 /\ LastCall(n).age < TTL /\ ~LastCall(n).live

\* where the page has the heading label
HeadingsAt(page, label) == {p \in DOMAIN page : page[p] = Header(label)}

\* what the page holds between the heading at p and the next heading or
\* button
PartUnder(page, p) ==
    LET stops == {q \in DOMAIN page :
                     q > p /\ page[q].kind \in {"header", "button"}}
        stop  == IF stops = {} THEN Len(page) + 1
                 ELSE CHOOSE q \in stops : \A q2 \in stops : q <= q2
    IN  SubSeq(page, p + 1, stop - 1)

\* C13: a fetch_entries request that finds no row returns the empty
\* sequence, not a failure; and in a run none of whose requests fails, a
\* table whose fetch_entries returned the empty sequence is rendered as its
\* heading followed by the one notice "No entries found." and no
\* subheading, the other table is rendered too, and the run comes to the
\* "Log out" button, which the browser then shows.
C13_EmptyResult ==
    Ran =>
        \A i \in DOMAIN last.calls :
            LET c == last.calls[i]
            IN
            IsFetch(c.key) =>
                /\ (/\ c.live
                    /\ ~BodyRaises(c.key, db, FALSE)
                    /\ Found(DbTable(db, c.key[2]), c.key[3], c.key[4], c.key[5],
                             c.key[6]) = <<>>)
                       => c.ok /\ c.result = <<>>
                /\ (c.result = <<>> /\ \A j \in DOMAIN last.calls : last.calls[j].ok) =>
                       /\ last.done
                       /\ screen[last.session] = "data"
                       /\ \A t \in Tables :
                              Cardinality(HeadingsAt(last.page, TableLabel(t))) = 1
                       /\ \A p \in HeadingsAt(last.page, TableLabel(c.key[2])) :
                              PartUnder(last.page, p) = <<Notice>>
                       /\ last.page[Len(last.page)].kind = "button"

\* C13 witness: a run has fetched anew from both tables with a filter that
\* rows of the one table match and no row of the other.
C13_Witness ==
    /\ Ran
    /\ Len(last.calls) = 5
    /\ last.calls[4].live
    /\ last.calls[4].result # <<>>
    /\ last.calls[5].live
    /\ last.calls[5].result = <<>>
    /\ Found(DbTable(db, "OriginalLanguage"), "UK", All, All, <<>>) = <<>>

\* C14: every call of load_options or fetch_entries sends at most one
\* request; when the request fails the call is the last of the run, the run
\* comes neither to the tables nor to the "Log out" button, the page holds
\* the widgets written before the call and nothing else, and the session
\* holds the token it held when the run began.
C14_FailureAborts ==
    Ran =>
        \A i \in DOMAIN last.calls :
            LET c == last.calls[i]
            IN  /\ c.attempts = IF c.live THEN 1 ELSE 0
                /\ ~c.ok =>
                       /\ c.live
                       /\ i = Len(last.calls)
                       /\ ~last.done
                       /\ ~last.logout
                       /\ screen[last.session] = "other"
                       /\ token[last.session] = last.start
                       /\ Len(last.page) = IF i <= 3 THEN i - 1 ELSE 4
                       /\ \A p \in DOMAIN last.page :
                              last.page[p].kind \in {"selectbox", "text_input"}

\* C14 witness: the request of the first fetch_entries has failed in a run
\* whose load_options calls were served from the cache.
C14_Witness ==
    /\ Ran
    /\ Len(last.calls) = 4
    /\ ~last.calls[4].ok
    /\ ~last.calls[1].live
    /\ last.start # NoToken

\* what the i-th cached call of a run (lines 71-73, 77, 78) with the filter
\* fields of key returns when its request is answered from the tables of
\* version v
AnswerAt(i, key, v) ==
    IF i <= 3
    THEN LoadOptions(DbTable(v, "English"), <<"country", "period", "section">>[i])
    ELSE FetchEntries(DbTable(v, IF i = 4 THEN "English" ELSE "OriginalLanguage"),
                      key[3], key[4], key[5], key[6])

\* C15: the store is keyed by the function and its exact arguments, the
\* table name included.  Every result a call returns is what the backend
\* answers to that call's own arguments: now, if the call made a request,
\* or less than TTL seconds ago, if it was served from the store.  A call
\* whose arguments hold an entry younger than TTL is served that entry,
\* whatever calls were made before it; and a step changes no entry but
\* those of the arguments of its own requests.
C15_CacheSoundness ==
    [][ last'.session # NoSession =>
          /\ \A i \in DOMAIN last'.calls :
                 LET c == last'.calls[i]
                 IN  /\ i <= 3 => c.key = OptKey("English",
                                            <<"country", "period", "section">>[i])
                     /\ i = 4 => c.key[1] = "fetch_entries" /\ c.key[2] = "English"
                     /\ i = 5 => /\ c.key[1] = "fetch_entries"
                                 /\ c.key[2] = "OriginalLanguage"
                                 /\ \A n \in 3..6 : c.key[n] = last'.calls[4].key[n]
                     /\ c.ok => \E v \in DbVersions : c.result = AnswerAt(i, c.key, v)
                     /\ (c.live /\ c.ok) =>
                            /\ c.result = AnswerAt(i, c.key, db)
                            /\ cache'[c.key].value = c.result
                            /\ cache'[c.key].age = 0
                     /\ (cache[c.key] # NoEntry /\ cache[c.key].age < TTL) =>
                            /\ ~c.live
                            /\ c.age = cache[c.key].age
                            /\ c.result = cache[c.key].value
                            /\ cache'[c.key] = cache[c.key]
                     /\ ~c.live => c.age >= 0 /\ c.age < TTL
          /\ \A k \in Keys :
                 cache'[k] # cache[k] =>
                     \E i \in DOMAIN last'.calls :
                         /\ last'.calls[i].key = k
                         /\ last'.calls[i].live
                         /\ last'.calls[i].ok
      ]_vars

\* C15 witness: a run with the filter FR has been served both tables from
\* the store, with different results, while the store holds results of the
\* default filter for the same tables that differ from them.
C15_Witness ==
    /\ Ran
    /\ Len(last.calls) = 5
    /\ last.calls[4].key[3] = "FR"
    /\ ~last.calls[4].live
    /\ ~last.calls[5].live
    /\ last.calls[4].age > 0
    /\ last.calls[4].result # last.calls[5].result
    /\ \A t \in Tables :
           LET e == cache[FetchKey(t, DefaultFilter)]
           IN  /\ e # NoEntry
               /\ e.age < TTL
               /\ e.value # cache[FetchKey(t, Filter("FR", All, All, <<>>))].value

\* C17: every run of a session that holds a token comes to the "Log out"
\* button and writes it to the page, also when a request of the run fails,
\* so that the browser of a session that holds a token after a run shows
\* the button.
C17_SignOutOffered ==
    (Ran /\ last.start # NoToken) =>
        /\ last.done
        /\ \E p \in DOMAIN last.page : last.page[p].kind = "button"
        /\ token[last.session] # NoToken => screen[last.session] = "data"

\* C17, for runs none of whose requests fails: the same.
C17_OfferedUnlessFailure ==
    (Ran /\ \A i \in DOMAIN last.calls : last.calls[i].ok) => C17_SignOutOffered

\* a run of a session with a token has ended at a failed request, and the
\* session still holds the token
C17_StuckWitness ==
    /\ Ran
    /\ last.start # NoToken
    /\ ~last.done
    /\ token[last.session] = last.start
    /\ screen[last.session] = "other"

\* C18: in every run of a session that holds a token, the session holds
\* that token throughout the cached calls, every request of the run is sent
\* by the client bound to that token, and get_supabase builds a client only
\* if none has been built for the token before, after which one exists.
C18_ClientOfCurrentToken ==
    [][ (last'.session # NoSession /\ last'.start # NoToken) =>
          /\ last'.start = token[last'.session]
          /\ \A i \in DOMAIN last'.calls :
                 last'.calls[i].live => last'.calls[i].by = last'.start
          /\ last'.built <=> last'.start \notin clients
          /\ clients' = clients \cup {last'.start}
      ]_vars

\* C18 witness: a session that signed out and signed in again with another
\* token has sent requests through the client of its new token, which a run
\* of another session had built.
C18_Witness ==
    /\ Ran
    /\ last.start # NoToken
    /\ ~last.built
    /\ clients = Tokens
    /\ Len(last.calls) = 5
    /\ \A i \in DOMAIN last.calls :
           /\ last.calls[i].live
           /\ last.calls[i].by = last.start
           /\ last.calls[i].age >= TTL
    /\ \E s \in Sessions \ {last.session} : token[s] = last.start

\* C19: a call whose request fails leaves the entry of its arguments as it
\* was, which is none or one that is TTL seconds old or more, and a run
\* changes no entry but those of its answered requests; a call whose
\* arguments hold no entry younger than TTL sends a request, so that the
\* next call after a failure does.
C19_FailureNotCached ==
    [][ last'.session # NoSession =>
          /\ \A i \in DOMAIN last'.calls :
                 LET c == last'.calls[i]
                 IN  /\ ~c.ok =>
                            /\ cache'[c.key] = cache[c.key]
                            /\ ~Fresh(cache'[c.key])
                     /\ ~Fresh(cache[c.key]) => c.live
                     /\ (c.live /\ c.ok) => cache'[c.key].value = Backend(c.key, db)
          /\ \A k \in Keys :
                 (\A i \in DOMAIN last'.calls :
                      last'.calls[i].key = k => ~last'.calls[i].ok)
                     => cache'[k] = cache[k]
      ]_vars

\* C19 witness: a request has failed for arguments whose entry had run out,
\* while the store holds an entry younger than TTL for other arguments.
C19_Witness ==
    /\ Ran
    /\ Len(last.calls) = 1
    /\ ~last.calls[1].ok
    /\ last.calls[1].age >= TTL
    /\ cache[last.calls[1].key] # NoEntry
    /\ \E k \in Keys : Fresh(cache[k]) /\ cache[k].age > 0

\* a request has been answered for arguments whose earlier request failed:
\* the first fetch_entries of a run found no entry at all, while the
\* load_options before it were served from the store
C19_NextCallWitness ==
    /\ Ran
    /\ Len(last.calls) = 5
    /\ ~last.calls[3].live
    /\ last.calls[4].live
    /\ last.calls[4].ok
    /\ last.calls[4].age = -1

-----------------------------------------------------------------------------
(* fetch_entries on its own: any table of up to MaxRows rows, any filter *)

\* the rows a table is filled from: values that are prefixes of one another,
\* a NULL country, a country spelled "All", equal sort keys, entries with
\* upper case and with the characters % and _, a NULL section
RowUniverse ==
    { Row(1, "FR",  "p1",  "A",  1, 1, <<"a", "b">>),
      Row(2, "FR",  "p1",  "A",  1, 2, <<"A">>),
      Row(3, "FRA", "p1",  "B",  2, 1, <<"a", "_">>),
      Row(4, "FR",  "p10", "AB", 2, 1, <<"b">>),
      Row(5, Null,  "p1",  "A",  3, 1, <<"%">>),
      Row(6, "All", "p1",  "A",  1, 1, <<>>),
      Row(7, "UK",  "p2",  Null, 2, 2, <<"b">>) }

QuerySearches ==
    { <<>>, <<"a">>, <<"A", "B">>, <<"b">>, <<"_">>, <<"%">>, <<"a", "_">> }

QueryFilters ==
    { Filter(c, p, s, q) : c \in {All, "FR", "FRA"}, p \in {All, "p1"},
                           s \in {All, "A"}, q \in QuerySearches }

\* a row is inserted into the table
QInsert(r) ==
    /\ Len(qTable) < MaxRows
    /\ r \notin Range(qTable)
    /\ qTable' = Append(qTable, r)
    /\ qArgs' = <<>>
    /\ qOut' = <<>>

\* fetch_entries(table, country, period, section, search), not cached, once
\* per content of the table; when the query finds no row the response may
\* carry an empty list or no data at all
QFetch(f) ==
    /\ qArgs = <<>>
    /\ LET found == Found(qTable, f.country, f.period, f.section, f.search)
       IN  \E none \in BOOLEAN :
               /\ none => found = <<>>
               /\ qArgs' = <<f, none>>
               /\ qOut' = IF none THEN DataOrEmpty(Response(TRUE, <<>>))
                                  ELSE FetchEntries(qTable, f.country, f.period,
                                                    f.section, f.search)
    /\ UNCHANGED qTable

NextQuery ==
    \/ \E r \in RowUniverse : QInsert(r) /\ UNCHANGED <<appVars, optionVars, renderVars, raceVars>>
    \/ \E f \in QueryFilters : QFetch(f) /\ UNCHANGED <<appVars, optionVars, renderVars, raceVars>>

SpecQuery == Init /\ [][NextQuery]_vars

-----------------------------------------------------------------------------
(* Properties of fetch_entries, under SpecQuery *)

\* the row's field is unconstrained by the filter or equals its value
FieldsAgree(r, f) ==
    /\ (f.country = All \/ r.country = f.country)
    /\ (f.period = All \/ r.period = f.period)
    /\ (f.section = All \/ r.section = f.section)

\* s occurs in text as a literal substring, compared without case
ContainsFold(text, s) ==
    \E i \in 0..(Len(text) - Len(s)) :
        \A j \in 1..Len(s) : Lower(text[i + j]) = Lower(s[j])

\* C9: the rows fetch_entries returns are rows of the table whose country,
\* period and section each is filtered as "All" or equals the filter value
\* exactly, no row twice, in ascending (section_num, entry_num) order; with
\* an empty search every such row of the table is returned, so that the
\* filter All/All/All with an empty search returns all rows of the table.
C9_ExactFiltersInOrder ==
    qArgs # <<>> =>
        LET f == qArgs[1]
        IN  /\ \A i \in DOMAIN qOut :
                   qOut[i] \in Range(qTable) /\ FieldsAgree(qOut[i], f)
            /\ \A i, j \in DOMAIN qOut :
                   i < j =>
                       /\ qOut[i] # qOut[j]
                       /\ \/ qOut[i].section_num < qOut[j].section_num
                          \/ /\ qOut[i].section_num = qOut[j].section_num
                             /\ qOut[i].entry_num <= qOut[j].entry_num
            /\ f.search = <<>> =>
                   \A r \in Range(qTable) : FieldsAgree(r, f) => r \in Range(qOut)
            /\ f = DefaultFilter =>
                   Range(qOut) = Range(qTable) /\ Len(qOut) = Len(qTable)

\* C9 witness: a query with a country filter and an empty search has returned
\* two rows in another order than the table holds them, and left out a row
\* whose country has the filter value as a proper prefix.
C9_Witness ==
    /\ qArgs # <<>>
    /\ qArgs[1].country = "FR"
    /\ qArgs[1].search = <<>>
    /\ Len(qOut) >= 2
    /\ \E i, j \in DOMAIN qTable :
           i < j /\ qTable[i] = qOut[2] /\ qTable[j] = qOut[1]
    /\ \E r \in Range(qTable) : r.country = "FRA" /\ r \notin Range(qOut)

\* C10: for every non-empty search string, pattern characters included,
\* fetch_entries returns a row if and only if the row passes the other
\* filters and the search string occurs in the row's entry as a literal
\* substring, compared without case; an empty search constrains nothing.
C10_LiteralSubstring ==
    qArgs # <<>> =>
        LET f == qArgs[1]
        IN  \A r \in Range(qTable) :
                r \in Range(qOut) <=>
                    /\ FieldsAgree(r, f)
                    /\ \/ f.search = <<>>
                       \/ (r.entry # Null /\ ContainsFold(r.entry, f.search))

\* C10, for search strings without pattern characters: the same equivalence.
C10_PlainSearchIsSubstring ==
    (qArgs # <<>> /\ \A k \in DOMAIN qArgs[1].search :
                         qArgs[1].search[k] \notin {"%", "_"})
        => C10_LiteralSubstring

-----------------------------------------------------------------------------
(* load_options on its own: any table of up to MaxRows rows, any column *)

\* the columns the selectboxes are filled from
Columns == {"country", "period", "section"}

\* a row is inserted into the table
OInsert(r) ==
    /\ QInsert(r)
    /\ oArgs' = <<>>
    /\ oOut' = NoResult

\* load_options(table, column), not cached, once per content of the table
OLoad(column) ==
    /\ oArgs = <<>>
    /\ oArgs' = <<column>>
    /\ oOut' = LoadOptionsCall(qTable, column)
    /\ UNCHANGED queryVars

NextOptions ==
    \/ \E r \in RowUniverse : OInsert(r) /\ UNCHANGED <<appVars, renderVars, raceVars>>
    \/ \E c \in Columns : OLoad(c) /\ UNCHANGED <<appVars, renderVars, raceVars>>

SpecOptions == Init /\ [][NextOptions]_vars

\* the list holds no value twice and, after its first element, ascends
AscendingAfterFirst(list) ==
    \A i, j \in DOMAIN list :
        i < j => /\ list[i] # list[j]
                 /\ i > 1 => StrRank(list[i]) < StrRank(list[j])

\* C11: for every table content, rows with a null value and rows with the
\* value "All" included, load_options returns a list that begins with "All",
\* holds besides it exactly the non-null values of the column, ascending,
\* and holds no value twice.
C11_OptionsList ==
    oArgs # <<>> =>
        LET values == ColumnValues(qTable, oArgs[1])
        IN  /\ ~oOut.raised
            /\ oOut.value # <<>>
            /\ oOut.value[1] = All
            /\ Range(oOut.value) = {All} \cup (values \ {Null})
            /\ AscendingAfterFirst(oOut.value)

\* C11, for columns that hold neither a null nor the value "All": the same.
C11_PlainColumn ==
    (oArgs # <<>> /\ ColumnValues(qTable, oArgs[1]) \cap {Null, All} = {})
        => C11_OptionsList

\* load_options has run on a column with several values and no null or "All"
C11_PlainWitness ==
    /\ oArgs # <<>>
    /\ ColumnValues(qTable, oArgs[1]) \cap {Null, All} = {}
    /\ Len(oOut.value) = 3
    /\ Len(qTable) = 3

-----------------------------------------------------------------------------
(* render on its own: any sequence of up to MaxRows rows *)

\* the labels of lines 91 and 92
Labels == {TableLabel(t) : t \in Tables}

\* a row is inserted into the table
RInsert(r) ==
    /\ QInsert(r)
    /\ rArgs' = <<>>
    /\ rOut' = <<>>

\* render(rows, label) on the rows of the table in the order they are held,
\* once per content of the table
RRender(label) ==
    /\ rArgs = <<>>
    /\ rArgs' = <<qTable>>
    /\ rOut' = Render(qTable, label)
    /\ UNCHANGED queryVars

NextRender ==
    \/ \E r \in RowUniverse : RInsert(r) /\ UNCHANGED <<appVars, optionVars, raceVars>>
    \/ \E l \in Labels : RRender(l) /\ UNCHANGED <<appVars, optionVars, raceVars>>

SpecRender == Init /\ [][NextRender]_vars

\* where out writes the entry of the row with this id
WritesOf(out, id) == {p \in DOMAIN out : out[p].kind = "write" /\ out[p].id = id}

\* where out has subheadings
Subheadings(out) == {p \in DOMAIN out : out[p].kind = "subheader"}

\* the subheading that the element at p stands under, 0 if none
HeadingOf(out, p) ==
    LET before == {q \in Subheadings(out) : q < p}
    IN  IF before = {} THEN 0
        ELSE CHOOSE q \in before : \A q2 \in before : q2 <= q

\* the first row of rows whose subheading has this text, 0 if none
FirstRowOf(rows, text) ==
    LET at == {i \in DOMAIN rows : "Section: " \o rows[i].section = text}
    IN  IF at = {} THEN 0
        ELSE CHOOSE i \in at : \A i2 \in at : i <= i2

\* C12: render of a non-empty row sequence writes the entry of every row
\* exactly once and nothing else but the heading and one subheading per
\* section; every entry stands under the subheading of its row's section;
\* the subheadings come in the order in which their sections first appear
\* in the rows, and the entries of one section in the order of the rows.
C12_GroupedInOrder ==
    (rArgs # <<>> /\ rArgs[1] # <<>>) =>
        LET rows == rArgs[1]
        IN  /\ rOut[1].kind = "header"
            /\ \A p \in DOMAIN rOut :
                   p > 1 => rOut[p].kind \in {"subheader", "write"}
            /\ \A i \in DOMAIN rows :
                   /\ Cardinality(WritesOf(rOut, rows[i].id)) = 1
                   /\ \A p \in WritesOf(rOut, rows[i].id) :
                          /\ rOut[p].entry = rows[i].entry
                          /\ HeadingOf(rOut, p) # 0
                          /\ rOut[HeadingOf(rOut, p)].label =
                                 "Section: " \o rows[i].section
            /\ Cardinality({p \in DOMAIN rOut : rOut[p].kind = "write"}) = Len(rows)
            /\ \A p, q \in Subheadings(rOut) :
                   p < q =>
                       /\ FirstRowOf(rows, rOut[p].label) # 0
                       /\ FirstRowOf(rows, rOut[p].label)
                              < FirstRowOf(rows, rOut[q].label)
            /\ \A i, j \in DOMAIN rows :
                   (i < j /\ rows[i].section = rows[j].section) =>
                       \A p \in WritesOf(rOut, rows[i].id),
                          q \in WritesOf(rOut, rows[j].id) : p < q

\* C12, for rows that all have a section: the same.
C12_RowsWithSection ==
    (rArgs # <<>> /\ \A i \in DOMAIN rArgs[1] : rArgs[1][i].section # Null)
        => C12_GroupedInOrder

\* render has run on three rows of two sections, the rows of one section
\* apart
C12_PlainWitness ==
    /\ rArgs # <<>>
    /\ Len(rArgs[1]) = 3
    /\ rArgs[1][1].section = "A"
    /\ rArgs[1][2].section = "B"
    /\ rArgs[1][3].section = "A"
    /\ Len(rOut) = 6

\* C13, for fetch_entries on its own: whenever no row of the table matches,
\* the response carrying an empty list or no data, the empty sequence is
\* returned.
C13_NoMatchIsEmpty ==
    (qArgs # <<>> /\ Found(qTable, qArgs[1].country, qArgs[1].period,
                           qArgs[1].section, qArgs[1].search) = <<>>)
        => qOut = <<>>

\* fetch_entries has run on a table with rows and got a response without
\* data
C13_NoDataWitness == qArgs # <<>> /\ qArgs[2] /\ qTable # <<>>

\* C13, for render on its own: the empty sequence is rendered as the heading
\* and the notice.
C13_RenderOfEmpty ==
    (rArgs # <<>> /\ rArgs[1] = <<>>) =>
        /\ Len(rOut) = 2
        /\ rOut[1].kind = "header"
        /\ rOut[2] = Notice

=============================================================================
